---- MODULE Spec2Model ----
(***************************************************************************)
(* Model of the SRBCS user API: the User entity, the UserService, the two  *)
(* UserRepository implementations (PostgresUserRepository over the users   *)
(* table of migrations/001+002, and the in-memory MockUserRepository of    *)
(* the service tests) and the status mapping of the HTTP handler.          *)
(*                                                                         *)
(* Strings that the code inspects character by character (emails) are      *)
(* sequences of one-character strings; names and ids are opaque strings.   *)
(* An error value is the sequence of its layers, outermost first: a        *)
(* sentinel is a one-element sequence, fmt.Errorf("...: %w", err) puts a   *)
(* layer in front, and nil is the empty sequence.                          *)
(***************************************************************************)
EXTENDS Integers, Sequences, FiniteSets, TLC

VARIABLES now, repo, last, ent, inflight

vars == <<now, repo, last, ent, inflight>>

Null == "null"
\* the nil *domain.User
Nil == 0

\* ------------------------------------------------------------------ bounds
MaxClock == 3
MaxIDs == 2
MaxEmailLen == 5
MaxObjects == 2
MaxWrap == 2
MaxQueryLen == 2

\* ------------------------------------------------------------------ errors
NoError == <<>>
ErrUserNotFound == <<"user not found">>
ErrUserAlreadyExists == <<"user already exists">>
ErrInvalidUserID == <<"invalid user ID">>
ErrInvalidUserEmail == <<"invalid user email">>
ErrInvalidUserName == <<"invalid user name">>
ErrInvalidUserRole == <<"invalid user role">>
ErrInvalidUserEmailVerified == <<"invalid user email verified">>
ErrInvalidUserActive == <<"invalid user active">>
ErrInvalidOTP == <<"invalid OTP">>
ErrInvalidOTPExpiresAt == <<"OTP expires at is in the past">>
ErrInternalError == <<"internal server error">>
ErrInvalidInput == <<"invalid input">>
ErrUnauthorized == <<"unauthorized">>
ErrForbidden == <<"forbidden">>
ErrValidationFailed == <<"validation failed">>

\* errors raised by database/sql and by the PostgreSQL server
SqlErrNoRows == <<"sql: no rows in result set">>
PqUniqueViolation == <<"pq: duplicate key value violates unique constraint users_email_key">>
PqInvalidUUID == <<"pq: invalid input syntax for type uuid">>
PqNegativeLimit == <<"pq: LIMIT must not be negative">>
PqNegativeOffset == <<"pq: OFFSET must not be negative">>
\* a slice expression out of range in the mock's List
PanicSliceBounds == <<"panic: runtime error: slice bounds out of range">>
\* errors.New("user already exists") of the mock: a fresh value, not the sentinel
MockAlreadyExists == <<"user already exists (mock)">>

\* fmt.Errorf(msg + ": %w", err)
Wrap(msg, err) == <<msg>> \o err

\* (err == target in place of errors.Is)
containsErrorUnwrapped(err, target) == err = target

\* errors.Is(err, target): some error of the chain equals the target
containsError(err, target) ==
  \E i \in 1..Len(err) : SubSeq(err, i, Len(err)) = target

StatusOK == 200
StatusCreated == 201
StatusNoContent == 204
StatusBadRequest == 400
StatusUnauthorized == 401
StatusForbidden == 403
StatusNotFound == 404
StatusConflict == 409
StatusInternalServerError == 500

getStatusCodeFromError(err) ==
  IF containsError(err, ErrUserNotFound) THEN StatusNotFound
  ELSE IF containsError(err, ErrUserAlreadyExists) THEN StatusConflict
  ELSE IF \/ containsError(err, ErrInvalidUserID)
          \/ containsError(err, ErrInvalidUserEmail)
          \/ containsError(err, ErrInvalidUserName)
          \/ containsError(err, ErrInvalidInput)
          \/ containsError(err, ErrValidationFailed) THEN StatusBadRequest
  ELSE IF containsError(err, ErrUnauthorized) THEN StatusUnauthorized
  ELSE IF containsError(err, ErrForbidden) THEN StatusForbidden
  ELSE StatusInternalServerError

\* ------------------------------------------------------------------ entity
EmptyString == <<>>

Count(s, ch) == Cardinality({i \in 1..Len(s) : s[i] = ch})

\* User.IsValidEmail: local-part@domain.tld, one '@', no whitespace, a '.'
\* after the '@' with something on both sides of it
IsValidEmail(s) ==
  /\ Count(s, " ") = 0
  /\ Count(s, "@") = 1
  /\ \E p \in 1..Len(s) :
       /\ s[p] = "@"
       /\ p > 1
       /\ \E q \in (p + 2)..(Len(s) - 1) : s[q] = "."

RoleUser == "user"
RoleAdmin == "admin"

\* the fields of domain.User
MkUser(id, email, name, created, updated) ==
  [ID |-> id, Email |-> email, Name |-> name, Role |-> RoleUser,
   IsEmailVerified |-> FALSE, IsActive |-> TRUE,
   OTP |-> Null, OTPExpiresAt |-> Null,
   CreatedAt |-> created, UpdatedAt |-> updated]

\* (the name is checked before the email)
NewUserNameFirst(email, name, t) ==
  IF name = "" THEN [err |-> ErrInvalidUserName, user |-> Null]
  ELSE IF email = EmptyString \/ ~IsValidEmail(email)
    THEN [err |-> ErrInvalidUserEmail, user |-> Null]
  ELSE [err |-> NoError, user |-> MkUser("", email, name, t, t)]

\* NewUser(email, name) at clock reading t: [err, user]
NewUser(email, name, t) ==
  IF email = EmptyString \/ ~IsValidEmail(email)
    THEN [err |-> ErrInvalidUserEmail, user |-> Null]
  ELSE IF name = "" THEN [err |-> ErrInvalidUserName, user |-> Null]
  ELSE [err |-> NoError, user |-> MkUser("", email, name, t, t)]

\* (the email is assigned before it is validated)
UpdateEmailAssignsFirst(u, newEmail, t) ==
  IF newEmail = EmptyString \/ ~IsValidEmail(newEmail)
    THEN [err |-> ErrInvalidUserEmail, user |-> [u EXCEPT !.Email = newEmail]]
  ELSE [err |-> NoError, user |-> [u EXCEPT !.Email = newEmail, !.UpdatedAt = t]]

\* (u *User).UpdateEmail(newEmail) at clock reading t: [err, user]
UpdateEmail(u, newEmail, t) ==
  IF newEmail = EmptyString \/ ~IsValidEmail(newEmail)
    THEN [err |-> ErrInvalidUserEmail, user |-> u]
  ELSE [err |-> NoError, user |-> [u EXCEPT !.Email = newEmail, !.UpdatedAt = t]]

\* (u *User).UpdateName(newName) at clock reading t: [err, user]
UpdateName(u, newName, t) ==
  IF newName = "" THEN [err |-> ErrInvalidUserName, user |-> u]
  ELSE [err |-> NoError, user |-> [u EXCEPT !.Name = newName, !.UpdatedAt = t]]

\* ------------------------------------------------------------- repository
\* A repository is [kind, rows, nextID, heap, users, emails]:
\*   rows, nextID : the users table and the uuid_generate_v4() supply (postgres)
\*   users, emails: the two maps of MockUserRepository, holding *domain.User
\*   heap         : the domain.User objects that pointers refer to
Postgres == "postgres"
Mock == "mock"

UUIDName == <<"uuid-1", "uuid-2", "uuid-3", "uuid-4", "uuid-5", "uuid-6">>
UUIDs == {UUIDName[i] : i \in 1..Len(UUIDName)}

\* the id column is of type UUID: any other text is rejected by the server
IsUUID(id) == id \in UUIDs

\* timestamps are counted in clock ticks; TIMESTAMP WITH TIME ZONE keeps
\* microseconds and rounds what the driver sends to the nearest one
TicksPerMicro == 2
PgTimestamp(t) == ((2 * t + TicksPerMicro) \div (2 * TicksPerMicro)) * TicksPerMicro

Refs == 1..8
NewRef(heap) == CHOOSE x \in Refs : x \notin DOMAIN heap /\ \A y \in Refs : y < x => y \in DOMAIN heap

\* allocate a domain.User object
Alloc(r, u) ==
  LET ref == NewRef(r.heap)
  IN [repo |-> [r EXCEPT !.heap = [x \in DOMAIN r.heap \cup {ref} |->
                                     IF x = ref THEN u ELSE r.heap[x]]],
      ref |-> ref]

Put(f, k, v) == [x \in DOMAIN f \cup {k} |-> IF x = k THEN v ELSE f[x]]
Del(f, k) == [x \in DOMAIN f \ {k} |-> f[x]]

\* dto.FromDomain and (*UserDTO).ToDomain
\* (created_at and updated_at passed to NewUserWithID in each other's place)
ToDomainSwapsTimes(d) ==
  [ID |-> d.ID, Email |-> d.Email, Name |-> d.Name, Role |-> d.Role,
   IsEmailVerified |-> d.IsEmailVerified, IsActive |-> d.IsActive,
   OTP |-> d.OTP, OTPExpiresAt |-> d.OTPExpiresAt,
   CreatedAt |-> d.UpdatedAt, UpdatedAt |-> d.CreatedAt]

FromDomain(u) ==
  [ID |-> u.ID, Email |-> u.Email, Name |-> u.Name,
   IsEmailVerified |-> u.IsEmailVerified, IsActive |-> u.IsActive,
   OTP |-> u.OTP, OTPExpiresAt |-> u.OTPExpiresAt, Role |-> u.Role,
   CreatedAt |-> u.CreatedAt, UpdatedAt |-> u.UpdatedAt]

NewUserWithID(id, email, name, role, verified, active, otp, otpExpires, created, updated) ==
  [ID |-> id, Email |-> email, Name |-> name, Role |-> role,
   IsEmailVerified |-> verified, IsActive |-> active,
   OTP |-> otp, OTPExpiresAt |-> otpExpires,
   CreatedAt |-> created, UpdatedAt |-> updated]

ToDomain(d) ==
  NewUserWithID(d.ID, d.Email, d.Name, d.Role, d.IsEmailVerified, d.IsActive,
                d.OTP, d.OTPExpiresAt, d.CreatedAt, d.UpdatedAt)

\* ---- PostgresUserRepository
\* the rows a "SELECT ... WHERE id = $1" / "WHERE email = $1" finds, as
\* db.GetContext reports them: a row, or sql.ErrNoRows, or the server's error
SelectByID(rows, id) ==
  IF ~IsUUID(id) THEN [err |-> PqInvalidUUID, row |-> Null]
  ELSE IF id \notin DOMAIN rows THEN [err |-> SqlErrNoRows, row |-> Null]
  ELSE [err |-> NoError, row |-> rows[id]]

SelectByEmail(rows, email) ==
  IF \A id \in DOMAIN rows : rows[id].Email # email
    THEN [err |-> SqlErrNoRows, row |-> Null]
  ELSE [err |-> NoError, row |-> rows[CHOOSE id \in DOMAIN rows : rows[id].Email = email]]

\* (no unique constraint on the email column)
PgCreateNoUniqueEmail(r, ref) ==
  LET userDTO == FromDomain(r.heap[ref])
      generatedID == UUIDName[r.nextID]
      row == [userDTO EXCEPT !.ID = generatedID,
                             !.CreatedAt = PgTimestamp(userDTO.CreatedAt),
                             !.UpdatedAt = PgTimestamp(userDTO.UpdatedAt)]
  IN [repo |-> [r EXCEPT !.rows = Put(r.rows, generatedID, row),
                         !.nextID = r.nextID + 1,
                         !.heap[ref].ID = generatedID],
      err |-> NoError]

\* (the INSERT names the id column and takes the entity's ID when it has one)
PgCreateKeepsID(r, ref) ==
  LET userDTO == FromDomain(r.heap[ref])
      generatedID == IF userDTO.ID # "" THEN userDTO.ID ELSE UUIDName[r.nextID]
      row == [userDTO EXCEPT !.ID = generatedID,
                             !.CreatedAt = PgTimestamp(userDTO.CreatedAt),
                             !.UpdatedAt = PgTimestamp(userDTO.UpdatedAt)]
  IN IF \E id \in DOMAIN r.rows : r.rows[id].Email = userDTO.Email
       THEN [repo |-> r, err |-> Wrap("failed to create user", PqUniqueViolation)]
     ELSE [repo |-> [r EXCEPT !.rows = Put(r.rows, generatedID, row),
                              !.nextID = r.nextID + 1,
                              !.heap[ref].ID = generatedID],
           err |-> NoError]

PgCreate(r, ref) ==
  LET userDTO == FromDomain(r.heap[ref])
      generatedID == UUIDName[r.nextID]
      row == [userDTO EXCEPT !.ID = generatedID,
                             !.CreatedAt = PgTimestamp(userDTO.CreatedAt),
                             !.UpdatedAt = PgTimestamp(userDTO.UpdatedAt)]
  IN IF \E id \in DOMAIN r.rows : r.rows[id].Email = userDTO.Email
       THEN [repo |-> r, err |-> Wrap("failed to create user", PqUniqueViolation)]
     ELSE [repo |-> [r EXCEPT !.rows = Put(r.rows, generatedID, row),
                              !.nextID = r.nextID + 1,
                              !.heap[ref].ID = generatedID],
           err |-> NoError]

PgGetByID(r, id) ==
  LET got == SelectByID(r.rows, id)
  IN IF got.err # NoError
       THEN IF got.err = SqlErrNoRows
              THEN [repo |-> r, err |-> ErrUserNotFound, ref |-> Nil]
            ELSE [repo |-> r, err |-> Wrap("failed to get user by ID", got.err), ref |-> Nil]
     ELSE LET a == Alloc(r, ToDomain(got.row))
          IN [repo |-> a.repo, err |-> NoError, ref |-> a.ref]

PgGetByEmail(r, email) ==
  LET got == SelectByEmail(r.rows, email)
  IN IF got.err # NoError
       THEN IF got.err = SqlErrNoRows
              THEN [repo |-> r, err |-> ErrUserNotFound, ref |-> Nil]
            ELSE [repo |-> r, err |-> Wrap("failed to get user by email", got.err), ref |-> Nil]
     ELSE LET a == Alloc(r, ToDomain(got.row))
          IN [repo |-> a.repo, err |-> NoError, ref |-> a.ref]

\* (rowsAffected != 0 taken for the missing row)
PgUpdateInvertedCheck(r, ref) ==
  LET userDTO == FromDomain(r.heap[ref])
      id == userDTO.ID
  IN IF ~IsUUID(id)
       THEN [repo |-> r, err |-> Wrap("failed to update user", PqInvalidUUID)]
     ELSE IF id \notin DOMAIN r.rows
       THEN [repo |-> r, err |-> NoError]
     ELSE IF \E o \in DOMAIN r.rows \ {id} : r.rows[o].Email = userDTO.Email
       THEN [repo |-> r, err |-> Wrap("failed to update user", PqUniqueViolation)]
     ELSE [repo |-> [r EXCEPT !.rows[id] =
                       [@ EXCEPT !.Email = userDTO.Email,
                                 !.Name = userDTO.Name,
                                 !.IsEmailVerified = userDTO.IsEmailVerified,
                                 !.IsActive = userDTO.IsActive,
                                 !.OTP = userDTO.OTP,
                                 !.OTPExpiresAt = userDTO.OTPExpiresAt,
                                 !.Role = userDTO.Role,
                                 !.UpdatedAt = PgTimestamp(userDTO.UpdatedAt)]],
           err |-> ErrUserNotFound]

\* (a SET list that leaves name out)
PgUpdateOmitsName(r, ref) ==
  LET userDTO == FromDomain(r.heap[ref])
      id == userDTO.ID
  IN IF ~IsUUID(id)
       THEN [repo |-> r, err |-> Wrap("failed to update user", PqInvalidUUID)]
     ELSE IF id \notin DOMAIN r.rows
       THEN [repo |-> r, err |-> ErrUserNotFound]                \* rowsAffected == 0
     ELSE IF \E o \in DOMAIN r.rows \ {id} : r.rows[o].Email = userDTO.Email
       THEN [repo |-> r, err |-> Wrap("failed to update user", PqUniqueViolation)]
     ELSE [repo |-> [r EXCEPT !.rows[id] =
                       [@ EXCEPT !.Email = userDTO.Email,
                                 !.IsEmailVerified = userDTO.IsEmailVerified,
                                 !.IsActive = userDTO.IsActive,
                                 !.OTP = userDTO.OTP,
                                 !.OTPExpiresAt = userDTO.OTPExpiresAt,
                                 !.Role = userDTO.Role,
                                 !.UpdatedAt = PgTimestamp(userDTO.UpdatedAt)]],
           err |-> NoError]

\* (an UPDATE that finds no row inserts it: an upsert)
PgUpdateUpserts(r, ref) ==
  LET userDTO == FromDomain(r.heap[ref])
      id == userDTO.ID
      row == [userDTO EXCEPT !.CreatedAt = PgTimestamp(userDTO.CreatedAt),
                             !.UpdatedAt = PgTimestamp(userDTO.UpdatedAt)]
  IN IF ~IsUUID(id)
       THEN [repo |-> r, err |-> Wrap("failed to update user", PqInvalidUUID)]
     ELSE IF \E o \in DOMAIN r.rows \ {id} : r.rows[o].Email = userDTO.Email
       THEN [repo |-> r, err |-> Wrap("failed to update user", PqUniqueViolation)]
     ELSE [repo |-> [r EXCEPT !.rows = Put(r.rows, id, row)], err |-> NoError]

PgUpdate(r, ref) ==
  LET userDTO == FromDomain(r.heap[ref])
      id == userDTO.ID
  IN IF ~IsUUID(id)
       THEN [repo |-> r, err |-> Wrap("failed to update user", PqInvalidUUID)]
     ELSE IF id \notin DOMAIN r.rows
       THEN [repo |-> r, err |-> ErrUserNotFound]                \* rowsAffected == 0
     ELSE IF \E o \in DOMAIN r.rows \ {id} : r.rows[o].Email = userDTO.Email
       THEN [repo |-> r, err |-> Wrap("failed to update user", PqUniqueViolation)]
     ELSE [repo |-> [r EXCEPT !.rows[id] =
                       [@ EXCEPT !.Email = userDTO.Email,
                                 !.Name = userDTO.Name,
                                 !.IsEmailVerified = userDTO.IsEmailVerified,
                                 !.IsActive = userDTO.IsActive,
                                 !.OTP = userDTO.OTP,
                                 !.OTPExpiresAt = userDTO.OTPExpiresAt,
                                 !.Role = userDTO.Role,
                                 !.UpdatedAt = PgTimestamp(userDTO.UpdatedAt)]],
           err |-> NoError]

PgDelete(r, id) ==
  IF ~IsUUID(id)
    THEN [repo |-> r, err |-> Wrap("failed to delete user", PqInvalidUUID)]
  ELSE IF id \notin DOMAIN r.rows
    THEN [repo |-> r, err |-> ErrUserNotFound]                   \* rowsAffected == 0
  ELSE [repo |-> [r EXCEPT !.rows = Del(r.rows, id)], err |-> NoError]

\* every order of the elements of S, as sequences
RECURSIVE Orders(_)
Orders(S) ==
  IF S = {} THEN {<<>>}
  ELSE UNION {{<<x>> \o o : o \in Orders(S \ {x})} : x \in S}

Min(a, b) == IF a < b THEN a ELSE b

\* (limit and offset bound to each other's placeholder)
PgListSwapsLimitOffset(r, limit, offset) ==
  {[err |-> NoError,
    users |-> [i \in 1..(Min(limit + offset, Len(o)) - Min(limit, Len(o))) |->
                 ToDomain(r.rows[o[i + limit]])]] :
   o \in {p \in Orders(DOMAIN r.rows) :
            \A i, j \in 1..Len(p) :
              i < j => r.rows[p[i]].CreatedAt >= r.rows[p[j]].CreatedAt}}

\* List: every result the query may give, [err, users]; rows of equal
\* created_at come in any order
PgList(r, limit, offset) ==
  IF limit < 0 THEN {[err |-> Wrap("failed to list users", PqNegativeLimit), users |-> <<>>]}
  ELSE IF offset < 0
    THEN {[err |-> Wrap("failed to list users", PqNegativeOffset), users |-> <<>>]}
  ELSE {[err |-> NoError,
         users |-> [i \in 1..(Min(offset + limit, Len(o)) - Min(offset, Len(o))) |->
                      ToDomain(r.rows[o[i + offset]])]] :
        o \in {p \in Orders(DOMAIN r.rows) :
                 \A i, j \in 1..Len(p) :
                   i < j => r.rows[p[i]].CreatedAt >= r.rows[p[j]].CreatedAt}}

\* ---- MockUserRepository (createFn and getFn are nil)
MockCreate(r, ref) ==
  LET user == r.heap[ref]
  IN IF user.Email \in DOMAIN r.emails
       THEN [repo |-> r, err |-> MockAlreadyExists]
     ELSE [repo |-> [r EXCEPT !.users = Put(r.users, user.ID, ref),
                              !.emails = Put(r.emails, user.Email, ref)],
           err |-> NoError]

MockGetByID(r, id) ==
  IF id \notin DOMAIN r.users
    THEN [repo |-> r, err |-> ErrUserNotFound, ref |-> Nil]
  ELSE [repo |-> r, err |-> NoError, ref |-> r.users[id]]

MockGetByEmail(r, email) ==
  IF email \notin DOMAIN r.emails
    THEN [repo |-> r, err |-> ErrUserNotFound, ref |-> Nil]
  ELSE [repo |-> r, err |-> NoError, ref |-> r.emails[email]]

MockUpdate(r, ref) ==
  LET user == r.heap[ref]
  IN IF user.ID \notin DOMAIN r.users
       THEN [repo |-> r, err |-> ErrUserNotFound]
     ELSE LET oldUser == r.heap[r.users[user.ID]]
              emails1 == IF oldUser.Email # user.Email
                           THEN Put(Del(r.emails, oldUser.Email), user.Email, ref)
                         ELSE r.emails
          IN [repo |-> [r EXCEPT !.emails = emails1,
                                 !.users = Put(r.users, user.ID, ref)],
              err |-> NoError]

MockDelete(r, id) ==
  IF id \notin DOMAIN r.users
    THEN [repo |-> r, err |-> ErrUserNotFound]
  ELSE LET user == r.heap[r.users[id]]
       IN [repo |-> [r EXCEPT !.users = Del(r.users, id),
                              !.emails = Del(r.emails, user.Email)],
           err |-> NoError]

\* List: the map is ranged over in any order
MockList(r, limit, offset) ==
  {LET users == [i \in 1..Len(o) |-> r.heap[r.users[o[i]]]]
       start == offset
       end == IF start + limit > Len(users) THEN Len(users) ELSE start + limit
   IN IF start > Len(users) THEN [err |-> NoError, users |-> <<>>]
      ELSE IF start < 0 \/ end < start THEN [err |-> PanicSliceBounds, users |-> <<>>]
      ELSE [err |-> NoError, users |-> [i \in 1..(end - start) |-> users[i + start]]] :
   o \in Orders(DOMAIN r.users)}

\* ---- the UserRepository interface, dispatched on the implementation
RepoCreate(r, ref) == IF r.kind = Postgres THEN PgCreate(r, ref) ELSE MockCreate(r, ref)
RepoGetByID(r, id) == IF r.kind = Postgres THEN PgGetByID(r, id) ELSE MockGetByID(r, id)
RepoGetByEmail(r, email) ==
  IF r.kind = Postgres THEN PgGetByEmail(r, email) ELSE MockGetByEmail(r, email)
RepoUpdate(r, ref) == IF r.kind = Postgres THEN PgUpdate(r, ref) ELSE MockUpdate(r, ref)
RepoDelete(r, id) == IF r.kind = Postgres THEN PgDelete(r, id) ELSE MockDelete(r, id)
RepoList(r, limit, offset) ==
  IF r.kind = Postgres THEN PgList(r, limit, offset) ELSE MockList(r, limit, offset)

\* ---------------------------------------------------------------- service
\* Every operation returns [repo, err, ref, calls]: the repository after it,
\* the error (NoError for nil), the *domain.User it returns (Nil for nil)
\* and the repository methods it called, in order.
CreateUser(r, t, email, name) ==
  LET existing == RepoGetByEmail(r, email)
  IN IF existing.err = NoError
       THEN [repo |-> existing.repo, err |-> ErrUserAlreadyExists, ref |-> Nil,
             calls |-> <<"GetByEmail">>]
     ELSE LET made == NewUser(email, name, t)
          IN IF made.err # NoError
               THEN [repo |-> existing.repo, err |-> made.err, ref |-> Nil,
                     calls |-> <<"GetByEmail">>]
             ELSE LET a == Alloc(existing.repo, made.user)
                      created == RepoCreate(a.repo, a.ref)
                  IN IF created.err # NoError
                       THEN [repo |-> created.repo, err |-> created.err, ref |-> Nil,
                             calls |-> <<"GetByEmail", "Create">>]
                     ELSE [repo |-> created.repo, err |-> NoError, ref |-> a.ref,
                           calls |-> <<"GetByEmail", "Create">>]

\* (no check of the empty id)
GetUserByIDNoCheck(r, id) ==
  LET got == RepoGetByID(r, id)
  IN [repo |-> got.repo, err |-> got.err, ref |-> got.ref, calls |-> <<"GetByID">>]

GetUserByID(r, id) ==
  IF id = ""
    THEN [repo |-> r, err |-> ErrInvalidUserID, ref |-> Nil, calls |-> <<>>]
  ELSE LET got == RepoGetByID(r, id)
       IN [repo |-> got.repo, err |-> got.err, ref |-> got.ref, calls |-> <<"GetByID">>]

GetUserByEmail(r, email) ==
  LET got == RepoGetByEmail(r, email)
  IN [repo |-> got.repo, err |-> got.err, ref |-> got.ref, calls |-> <<"GetByEmail">>]

\* (the name is applied before the email is validated)
UpdateUserNameFirst(r, t, id, email, name) ==
  LET got == RepoGetByID(r, id)
  IN IF got.err # NoError
       THEN [repo |-> got.repo, err |-> got.err, ref |-> Nil, calls |-> <<"GetByID">>]
     ELSE
       LET ref == got.ref
           n == IF name # ""
                  THEN UpdateName(got.repo.heap[ref], name, t)
                ELSE [err |-> NoError, user |-> got.repo.heap[ref]]
           r1 == [got.repo EXCEPT !.heap[ref] = n.user]
       IN IF n.err # NoError
            THEN [repo |-> r1, err |-> n.err, ref |-> Nil, calls |-> <<"GetByID">>]
          ELSE
            LET e == IF email # EmptyString
                       THEN UpdateEmail(r1.heap[ref], email, t)
                     ELSE [err |-> NoError, user |-> r1.heap[ref]]
                r2 == [r1 EXCEPT !.heap[ref] = e.user]
            IN IF e.err # NoError
                 THEN [repo |-> r2, err |-> e.err, ref |-> Nil, calls |-> <<"GetByID">>]
               ELSE LET upd == RepoUpdate(r2, ref)
                    IN IF upd.err # NoError
                         THEN [repo |-> upd.repo, err |-> upd.err, ref |-> Nil,
                               calls |-> <<"GetByID", "Update">>]
                       ELSE [repo |-> upd.repo, err |-> NoError, ref |-> ref,
                             calls |-> <<"GetByID", "Update">>]

\* (a failed Update is tried once more)
UpdateUserRetriesUpdate(r, t, id, email, name) ==
  LET got == RepoGetByID(r, id)
  IN IF got.err # NoError
       THEN [repo |-> got.repo, err |-> got.err, ref |-> Nil, calls |-> <<"GetByID">>]
     ELSE
       LET ref == got.ref
           e == IF email # EmptyString
                  THEN UpdateEmail(got.repo.heap[ref], email, t)
                ELSE [err |-> NoError, user |-> got.repo.heap[ref]]
           r1 == [got.repo EXCEPT !.heap[ref] = e.user]
       IN IF e.err # NoError
            THEN [repo |-> r1, err |-> e.err, ref |-> Nil, calls |-> <<"GetByID">>]
          ELSE
            LET n == IF name # ""
                       THEN UpdateName(r1.heap[ref], name, t)
                     ELSE [err |-> NoError, user |-> r1.heap[ref]]
                r2 == [r1 EXCEPT !.heap[ref] = n.user]
            IN IF n.err # NoError
                 THEN [repo |-> r2, err |-> n.err, ref |-> Nil, calls |-> <<"GetByID">>]
               ELSE LET upd == RepoUpdate(r2, ref)
                    IN IF upd.err = NoError
                         THEN [repo |-> upd.repo, err |-> NoError, ref |-> ref,
                               calls |-> <<"GetByID", "Update">>]
                       ELSE LET again == RepoUpdate(upd.repo, ref)
                            IN [repo |-> again.repo, err |-> again.err,
                                ref |-> IF again.err # NoError THEN Nil ELSE ref,
                                calls |-> <<"GetByID", "Update", "Update">>]

UpdateUser(r, t, id, email, name) ==
  LET got == RepoGetByID(r, id)
  IN IF got.err # NoError
       THEN [repo |-> got.repo, err |-> got.err, ref |-> Nil, calls |-> <<"GetByID">>]
     ELSE
       LET ref == got.ref
           e == IF email # EmptyString
                  THEN UpdateEmail(got.repo.heap[ref], email, t)
                ELSE [err |-> NoError, user |-> got.repo.heap[ref]]
           r1 == [got.repo EXCEPT !.heap[ref] = e.user]
       IN IF e.err # NoError
            THEN [repo |-> r1, err |-> e.err, ref |-> Nil, calls |-> <<"GetByID">>]
          ELSE
            LET n == IF name # ""
                       THEN UpdateName(r1.heap[ref], name, t)
                     ELSE [err |-> NoError, user |-> r1.heap[ref]]
                r2 == [r1 EXCEPT !.heap[ref] = n.user]
            IN IF n.err # NoError
                 THEN [repo |-> r2, err |-> n.err, ref |-> Nil, calls |-> <<"GetByID">>]
               ELSE LET upd == RepoUpdate(r2, ref)
                    IN IF upd.err # NoError
                         THEN [repo |-> upd.repo, err |-> upd.err, ref |-> Nil,
                               calls |-> <<"GetByID", "Update">>]
                       ELSE [repo |-> upd.repo, err |-> NoError, ref |-> ref,
                             calls |-> <<"GetByID", "Update">>]

DeleteUser(r, id) ==
  LET del == RepoDelete(r, id)
  IN [repo |-> del.repo, err |-> del.err, ref |-> Nil, calls |-> <<"Delete">>]

\* ListUsers passes limit and offset on: every result it may give
ListUsers(r, limit, offset) ==
  {[repo |-> r, err |-> got.err, users |-> got.users, calls |-> <<"List">>] :
   got \in RepoList(r, limit, offset)}

\* ------------------------------------------------------------- the system
\* the users a repository stores, by the key they are stored under
Stored(r) ==
  IF r.kind = Postgres THEN [id \in DOMAIN r.rows |-> ToDomain(r.rows[id])]
  ELSE [id \in DOMAIN r.users |-> r.heap[r.users[id]]]

\* objects no map refers to are garbage once the call has returned
Collect(r) ==
  LET live == IF r.kind = Postgres THEN {}
              ELSE {r.users[k] : k \in DOMAIN r.users} \cup {r.emails[k] : k \in DOMAIN r.emails}
  IN [r EXCEPT !.heap = [x \in live |-> r.heap[x]]]

E1 == <<"a", "@", "b", ".", "c">>
E2 == <<"b", "@", "b", ".", "c">>
EInvalid == <<"a", "b">>
Emails == {E1, E2, EInvalid, EmptyString}
Names == {"", "N1", "N2"}
\* the ids callers pass: empty, not a uuid, the fixture's, and the uuids the
\* table hands out
IDs(r) ==
  IF r.kind = Postgres THEN {"", "nonexistent"} \cup {UUIDName[i] : i \in 1..MaxIDs}
  ELSE {"", "nonexistent", "user-1"}

NoArgs ==
  [id |-> "", email |-> EmptyString, name |-> "", limit |-> 0, offset |-> 0,
   limitStr |-> EmptyString, offsetStr |-> EmptyString]

\* the limits and offsets ListUsers is called with
Limits == {1, 2, 10}
Offsets == {0, 1, 2, 3}

EmptyRepo(kind) ==
  [kind |-> kind, rows |-> <<>>, nextID |-> 1, heap |-> <<>>, users |-> <<>>, emails |-> <<>>]

\* the fixture of TestUserService_UpdateUser: one user under both maps
FixtureRepo ==
  LET existingUser == [MkUser("user-1", E1, "N1", 0, 0) EXCEPT
                         !.Role = "", !.IsActive = FALSE]   \* a struct literal
  IN [kind |-> Mock, rows |-> <<>>, nextID |-> 1,
      heap |-> (1 :> existingUser),
      users |-> ("user-1" :> 1),
      emails |-> (E1 :> 1)]

\* a process that is making no call; Procs are the goroutines serving requests
Procs == {"p1", "p2"}
Idle ==
  [op |-> "none", pc |-> "idle", args |-> NoArgs, user |-> <<>>, err |-> NoError,
   overlaps |-> 0, calls |-> <<>>]
NoCalls == [p \in Procs |-> Idle]

\* no call of the entity's functions on their own yet
NoEntity ==
  [op |-> "none", email |-> EmptyString, name |-> "", err |-> NoError, user |-> <<>>,
   pre |-> <<>>, at |-> 0]

NoCall ==
  [op |-> "none", via |-> "none", args |-> NoArgs, err |-> NoError, ret |-> <<>>,
   calls |-> <<>>, status |-> 0, pre |-> <<>>]

\* the clock starts at a reading that falls on a whole microsecond
Init ==
  /\ now = 2
  /\ repo \in {EmptyRepo(Postgres), EmptyRepo(Mock), FixtureRepo}
  /\ last = NoCall
  /\ ent = NoEntity
  /\ inflight = NoCalls

\* what a call leaves behind: the repository, and the record of the call
Returns(op, via, args, res, status) ==
  /\ last = NoCall
  /\ repo' = Collect(res.repo)
  /\ last' = [op |-> op, via |-> via, args |-> args, err |-> res.err,
              ret |-> IF res.ref = Nil THEN <<>> ELSE <<res.repo.heap[res.ref]>>,
              calls |-> res.calls, status |-> status, pre |-> Stored(repo)]
  /\ UNCHANGED <<now, ent, inflight>>

\* what a ListUsers leaves behind
ReturnsList(via, args, res, status) ==
  /\ last = NoCall
  /\ last' = [op |-> "ListUsers", via |-> via, args |-> args, err |-> res.err,
              ret |-> res.users, calls |-> res.calls, status |-> status,
              pre |-> Stored(repo)]
  /\ UNCHANGED <<now, repo, ent, inflight>>

\* the model creates at most MaxIDs rows (the supply of uuids) and keeps at
\* most MaxObjects users in the mock
CanCreate(r) ==
  IF r.kind = Postgres THEN r.nextID <= MaxIDs
  ELSE Cardinality(DOMAIN r.heap) < MaxObjects

Tick ==
  /\ last = NoCall
  /\ now < MaxClock
  /\ now' = now + 1
  /\ UNCHANGED <<repo, last, ent, inflight>>

\* the caller has taken the result: the record of the call is dropped
Respond ==
  /\ last # NoCall
  /\ last' = NoCall
  /\ UNCHANGED <<now, repo, ent, inflight>>

\* ---- calls of the service, as its tests make them
CallCreateUser(email, name) ==
  /\ CanCreate(repo)
  /\ Returns("CreateUser", "service", [NoArgs EXCEPT !.email = email, !.name = name],
             CreateUser(repo, now, email, name), 0)

CallGetUserByID(id) ==
  Returns("GetUserByID", "service", [NoArgs EXCEPT !.id = id], GetUserByID(repo, id), 0)

CallGetUserByEmail(email) ==
  Returns("GetUserByEmail", "service", [NoArgs EXCEPT !.email = email],
          GetUserByEmail(repo, email), 0)

CallUpdateUser(id, email, name) ==
  Returns("UpdateUser", "service", [NoArgs EXCEPT !.id = id, !.email = email, !.name = name],
          UpdateUser(repo, now, id, email, name), 0)

CallDeleteUser(id) ==
  Returns("DeleteUser", "service", [NoArgs EXCEPT !.id = id], DeleteUser(repo, id), 0)

CallListUsers(limit, offset) ==
  \E res \in ListUsers(repo, limit, offset) :
    ReturnsList("service", [NoArgs EXCEPT !.limit = limit, !.offset = offset], res, 0)

\* ---- requests to the handler of cmd/api (the JSON body binds); main wires
\* the handler to the service over PostgresUserRepository
Rejected(r) == [repo |-> r, err |-> NoError, ref |-> Nil, calls |-> <<>>]

\* the requests a handler answers 400 without calling the service
HandlerRejects(op, args) ==
  IF op = "CreateUser" THEN args.email = EmptyString \/ args.name = ""
  ELSE args.id = ""

HandlerCreateUser(email, name) ==
  /\ repo.kind = Postgres
  /\ CanCreate(repo)
  /\ LET args == [NoArgs EXCEPT !.email = email, !.name = name]
     IN IF HandlerRejects("CreateUser", args)
          THEN Returns("CreateUser", "http", args, Rejected(repo), StatusBadRequest)
        ELSE LET res == CreateUser(repo, now, email, name)
             IN Returns("CreateUser", "http", args, res,
                        IF res.err # NoError THEN getStatusCodeFromError(res.err)
                        ELSE StatusCreated)

HandlerGetUser(id) ==
  /\ repo.kind = Postgres
  /\ LET args == [NoArgs EXCEPT !.id = id]
     IN IF HandlerRejects("GetUserByID", args)
          THEN Returns("GetUserByID", "http", args, Rejected(repo), StatusBadRequest)
        ELSE LET res == GetUserByID(repo, id)
             IN Returns("GetUserByID", "http", args, res,
                        IF res.err # NoError THEN getStatusCodeFromError(res.err)
                        ELSE StatusOK)

HandlerUpdateUser(id, email, name) ==
  /\ repo.kind = Postgres
  /\ LET args == [NoArgs EXCEPT !.id = id, !.email = email, !.name = name]
     IN IF HandlerRejects("UpdateUser", args)
          THEN Returns("UpdateUser", "http", args, Rejected(repo), StatusBadRequest)
        ELSE LET res == UpdateUser(repo, now, id, email, name)
             IN Returns("UpdateUser", "http", args, res,
                        IF res.err # NoError THEN getStatusCodeFromError(res.err)
                        ELSE StatusOK)

HandlerDeleteUser(id) ==
  /\ repo.kind = Postgres
  /\ LET args == [NoArgs EXCEPT !.id = id]
     IN IF HandlerRejects("DeleteUser", args)
          THEN Returns("DeleteUser", "http", args, Rejected(repo), StatusBadRequest)
        ELSE LET res == DeleteUser(repo, id)
             IN Returns("DeleteUser", "http", args, res,
                        IF res.err # NoError THEN getStatusCodeFromError(res.err)
                        ELSE StatusNoContent)

\* strconv.Atoi on a query string: [ok, value]; an optional sign, then one
\* or more decimal digits (the strings of the model are far from overflowing)
DigitChars == <<"0", "1", "2", "3", "4", "5", "6", "7", "8", "9">>
IsDigit(ch) == \E d \in 1..10 : DigitChars[d] = ch
DigitValue(ch) == (CHOOSE d \in 1..10 : DigitChars[d] = ch) - 1

RECURSIVE DecimalValue(_)
DecimalValue(digits) ==
  IF digits = <<>> THEN 0
  ELSE 10 * DecimalValue(SubSeq(digits, 1, Len(digits) - 1))
       + DigitValue(digits[Len(digits)])

Atoi(str) ==
  LET signed == str # <<>> /\ str[1] \in {"+", "-"}
      digits == IF signed THEN Tail(str) ELSE str
  IN IF digits = <<>> \/ \E i \in 1..Len(digits) : ~IsDigit(digits[i])
       THEN [ok |-> FALSE, value |-> 0]
     ELSE [ok |-> TRUE,
           value |-> IF signed /\ str[1] = "-" THEN 0 - DecimalValue(digits)
                     ELSE DecimalValue(digits)]

DefaultLimit == 10
DefaultOffset == 0

\* (a parsed limit of zero is taken)
HandlerListUsersAcceptsZero(limitStr, offsetStr) ==
  /\ repo.kind = Postgres
  /\ LET parsedLimit == Atoi(limitStr)
         parsedOffset == Atoi(offsetStr)
         limit == IF limitStr # EmptyString /\ parsedLimit.ok /\ parsedLimit.value >= 0
                    THEN parsedLimit.value ELSE DefaultLimit
         offset == IF offsetStr # EmptyString /\ parsedOffset.ok /\ parsedOffset.value >= 0
                     THEN parsedOffset.value ELSE DefaultOffset
         args == [NoArgs EXCEPT !.limitStr = limitStr, !.offsetStr = offsetStr,
                                !.limit = limit, !.offset = offset]
     IN \E res \in ListUsers(repo, limit, offset) :
          ReturnsList("http", args, res,
                      IF res.err # NoError THEN getStatusCodeFromError(res.err)
                      ELSE StatusOK)

HandlerListUsers(limitStr, offsetStr) ==
  /\ repo.kind = Postgres
  /\ LET parsedLimit == Atoi(limitStr)
         parsedOffset == Atoi(offsetStr)
         limit == IF limitStr # EmptyString /\ parsedLimit.ok /\ parsedLimit.value > 0
                    THEN parsedLimit.value ELSE DefaultLimit
         offset == IF offsetStr # EmptyString /\ parsedOffset.ok /\ parsedOffset.value >= 0
                     THEN parsedOffset.value ELSE DefaultOffset
         args == [NoArgs EXCEPT !.limitStr = limitStr, !.offsetStr = offsetStr,
                                !.limit = limit, !.offset = offset]
     IN \E res \in ListUsers(repo, limit, offset) :
          ReturnsList("http", args, res,
                      IF res.err # NoError THEN getStatusCodeFromError(res.err)
                      ELSE StatusOK)

Next ==
  \/ Tick
  \/ Respond
  \/ \E email \in Emails, name \in Names : CallCreateUser(email, name)
  \/ \E id \in IDs(repo) : CallGetUserByID(id)
  \/ \E email \in Emails : CallGetUserByEmail(email)
  \/ \E id \in IDs(repo), email \in Emails, name \in Names : CallUpdateUser(id, email, name)
  \/ \E id \in IDs(repo) : CallDeleteUser(id)
  \/ CallListUsers(DefaultLimit, DefaultOffset)
  \/ \E email \in Emails, name \in Names : HandlerCreateUser(email, name)
  \/ \E id \in IDs(repo) : HandlerGetUser(id)
  \/ \E id \in IDs(repo), email \in Emails, name \in Names : HandlerUpdateUser(id, email, name)
  \/ \E id \in IDs(repo) : HandlerDeleteUser(id)

Spec == Init /\ [][Next]_vars


\* ------------------------------------------------------ the entity alone
\* NewUser, UpdateEmail and UpdateName called on their own, as the tests of
\* the domain package call them; ent is the call and what it gave.
Alphabet == {"a", "@", ".", " "}

\* every string over the alphabet of at most n characters
RECURSIVE StringsUpTo(_)
StringsUpTo(n) ==
  IF n = 0 THEN {EmptyString}
  ELSE LET shorter == StringsUpTo(n - 1)
       IN shorter \cup {Append(s, ch) : s \in shorter, ch \in Alphabet}

\* the table of TestUser_IsValidEmail: <<email, want>>
IsValidEmailTests ==
  {<<<<"t", "e", "s", "t", "@", "e", "x", "a", "m", "p", "l", "e", ".", "c", "o", "m">>, TRUE>>,
   <<<<"u", "s", "e", "r", "@", "m", "a", "i", "l", ".", "e", "x", "a", "m", "p", "l", "e", ".", "c", "o", "m">>, TRUE>>,
   <<<<"u", "s", "e", "r", "1", "2", "3", "@", "e", "x", "a", "m", "p", "l", "e", "1", "2", "3", ".", "c", "o", "m">>, TRUE>>,
   <<<<"u", "s", "e", "r", "+", "t", "e", "s", "t", "@", "e", "x", "a", "m", "p", "l", "e", ".", "c", "o", "m">>, TRUE>>,
   <<<<"u", "s", "e", "r", "e", "x", "a", "m", "p", "l", "e", ".", "c", "o", "m">>, FALSE>>,
   <<<<"u", "s", "e", "r", "@">>, FALSE>>,
   <<<<"@", "e", "x", "a", "m", "p", "l", "e", ".", "c", "o", "m">>, FALSE>>,
   <<<<"u", "s", "e", "r", "@", "e", "x", "a", "m", "p", "l", "e">>, FALSE>>,
   <<<<>>, FALSE>>,
   <<<<"u", "s", "e", "r", " ", "@", "e", "x", "a", "m", "p", "l", "e", ".", "c", "o", "m">>, FALSE>>}

EntityEmails == StringsUpTo(MaxEmailLen) \cup {t[1] : t \in IsValidEmailTests}

\* the emails UpdateEmail is called with: those of the tests' tables
UpdateEmailInputs == {t[1] : t \in IsValidEmailTests} \cup {E1, E2, EInvalid}

\* the user of TestUser_UpdateEmail, a struct literal stamped an hour ago
TestEntity ==
  [NoEntity EXCEPT !.op = "literal",
                   !.user = <<[MkUser("user-1", E1, "N1", 0, 0) EXCEPT
                                 !.Role = "", !.IsActive = FALSE]>>]

InitEntity ==
  /\ now = 1
  /\ repo = EmptyRepo(Postgres)
  /\ last = NoCall
  /\ ent \in {NoEntity, TestEntity}
  /\ inflight = NoCalls

Construct(email, name) ==
  LET made == NewUser(email, name, now)
  IN /\ ent = NoEntity
     /\ ent' = [op |-> "NewUser", email |-> email, name |-> name, err |-> made.err,
                user |-> IF made.err = NoError THEN <<made.user>> ELSE <<>>,
                pre |-> <<>>, at |-> now]
     /\ UNCHANGED <<now, repo, last, inflight>>

\* user.UpdateEmail(newEmail) and user.UpdateName(newName) on the entity at
\* hand; pre is the entity before the call and at the clock reading of it
CallUpdateEmail(newEmail) ==
  /\ ent.user # <<>>
  /\ LET res == UpdateEmail(ent.user[1], newEmail, now)
     IN ent' = [op |-> "UpdateEmail", email |-> newEmail, name |-> "", err |-> res.err,
                user |-> <<res.user>>, pre |-> ent.user, at |-> now]
  /\ UNCHANGED <<now, repo, last, inflight>>

CallUpdateName(newName) ==
  /\ ent.user # <<>>
  /\ LET res == UpdateName(ent.user[1], newName, now)
     IN ent' = [op |-> "UpdateName", email |-> EmptyString, name |-> newName,
                err |-> res.err, user |-> <<res.user>>, pre |-> ent.user, at |-> now]
  /\ UNCHANGED <<now, repo, last, inflight>>

\* the test is over: the entity is dropped
Discard ==
  /\ ent # NoEntity
  /\ ent' = NoEntity
  /\ UNCHANGED <<now, repo, last, inflight>>

NextEntity ==
  \/ Tick
  \/ Discard
  \/ ent = NoEntity /\ \E email \in EntityEmails, name \in Names : Construct(email, name)
  \/ \E newEmail \in UpdateEmailInputs : CallUpdateEmail(newEmail)
  \/ \E newName \in Names : CallUpdateName(newName)

SpecEntity == InitEntity /\ [][NextEntity]_vars

\* ------------------------------------------------------------- listing
\* ListUsers over the repositories that creating and deleting users leave
\* (an update changes neither which users are stored nor their CreatedAt)
NextList ==
  \/ Tick
  \/ Respond
  \/ \E email \in Emails, name \in Names : CallCreateUser(email, name)
  \/ \E id \in IDs(repo) : CallDeleteUser(id)
  \/ \E limit \in Limits, offset \in Offsets : CallListUsers(limit, offset)

SpecList == Init /\ [][NextList]_vars

\* GET /api/v1/users/ with every limit and offset query of at most
\* MaxQueryLen characters (an absent parameter is the empty string), over the
\* rows that POST /api/v1/users/ leaves
QueryAlphabet == {"0", "1", "-", "+", "x"}

RECURSIVE QueryStringsUpTo(_)
QueryStringsUpTo(n) ==
  IF n = 0 THEN {EmptyString}
  ELSE LET shorter == QueryStringsUpTo(n - 1)
       IN shorter \cup {Append(str, ch) : str \in shorter, ch \in QueryAlphabet}

QueryStrings == QueryStringsUpTo(MaxQueryLen)

InitQuery ==
  /\ now = 2
  /\ repo = EmptyRepo(Postgres)
  /\ last = NoCall
  /\ ent = NoEntity
  /\ inflight = NoCalls

NextQuery ==
  \/ Respond
  \/ last = NoCall /\ \E email \in {E1, E2} : HandlerCreateUser(email, "N1")
  \/ last = NoCall /\ \E limitStr \in QueryStrings, offsetStr \in QueryStrings :
                        HandlerListUsers(limitStr, offsetStr)

SpecQuery == InitQuery /\ [][NextQuery]_vars

\* ------------------------------------------------- the status mapping
\* getStatusCodeFromError applied to every error the program has, bare and
\* wrapped up to MaxWrap times by fmt.Errorf("...: %w", err)
Sentinels ==
  {ErrUserNotFound, ErrUserAlreadyExists, ErrInvalidUserID, ErrInvalidUserEmail,
   ErrInvalidUserName, ErrInvalidUserRole, ErrInvalidUserEmailVerified,
   ErrInvalidUserActive, ErrInvalidOTP, ErrInvalidOTPExpiresAt,
   ErrInternalError, ErrInvalidInput, ErrUnauthorized, ErrForbidden,
   ErrValidationFailed}

StorageErrors == {SqlErrNoRows, PqUniqueViolation, PqInvalidUUID, MockAlreadyExists}

\* the second message is a text that reads like a sentinel without being one
WrapMessages == {"failed to get user by ID", "user not found"}

RECURSIVE WrappedUpTo(_, _)
WrappedUpTo(errs, n) ==
  IF n = 0 THEN errs
  ELSE LET inner == WrappedUpTo(errs, n - 1)
       IN inner \cup {Wrap(msg, err) : msg \in WrapMessages, err \in inner}

ErrorInputs == WrappedUpTo(Sentinels \cup StorageErrors, MaxWrap)

MapError(err) ==
  /\ last = NoCall
  /\ last' = [NoCall EXCEPT !.op = "getStatusCodeFromError", !.via = "http",
                            !.err = err, !.status = getStatusCodeFromError(err)]
  /\ UNCHANGED <<now, repo, ent, inflight>>

InitStatus ==
  /\ now = 1
  /\ repo = EmptyRepo(Postgres)
  /\ last = NoCall
  /\ ent = NoEntity
  /\ inflight = NoCalls

NextStatus ==
  \/ Respond
  \/ last = NoCall /\ \E err \in ErrorInputs : MapError(err)

SpecStatus == InitStatus /\ [][NextStatus]_vars

\* ------------------------------------------------------ concurrent calls
\* The handlers run on one goroutine per request over one service and one
\* PostgresUserRepository: the repository calls of two requests interleave,
\* each statement being atomic in the database.  A call in flight keeps the
\* entity it works on (user), the repository methods it has called (calls)
\* and the number of other calls that were in flight at some moment of its
\* own flight (overlaps, counted up to 2).
Busy == {q \in Procs : inflight[q].pc # "idle"}

\* p begins a call: it overlaps every call that has begun and not returned
Begin(p, call) ==
  [q \in Procs |->
     IF q = p THEN [call EXCEPT !.overlaps = Min(Cardinality(Busy \ {p}), 2)]
     ELSE IF q \in Busy THEN [inflight[q] EXCEPT !.overlaps = Min(@ + 1, 2)]
     ELSE inflight[q]]

Finish(p, err, user) ==
  [inflight EXCEPT ![p].pc = "done", ![p].err = err, ![p].user = user]

\* CreateUser up to the answer of GetByEmail
CreateUserCheck(p, email, name) ==
  /\ last = NoCall
  /\ inflight[p] = Idle
  /\ repo.nextID + Cardinality({q \in Procs : inflight[q].pc = "checked"}) <= MaxIDs
  /\ LET existing == RepoGetByEmail(repo, email)
         begun == [Idle EXCEPT !.op = "CreateUser", !.calls = <<"GetByEmail">>,
                               !.args = [NoArgs EXCEPT !.email = email, !.name = name]]
     IN /\ inflight' = Begin(p, IF existing.err = NoError
                                  THEN [begun EXCEPT !.pc = "done",
                                                     !.err = ErrUserAlreadyExists]
                                ELSE [begun EXCEPT !.pc = "checked"])
        /\ repo' = Collect(existing.repo)
  /\ UNCHANGED <<now, last, ent>>

\* CreateUser from NewUser to the answer of Create
CreateUserPersist(p) ==
  /\ inflight[p].op = "CreateUser"
  /\ inflight[p].pc = "checked"
  /\ LET made == NewUser(inflight[p].args.email, inflight[p].args.name, now)
     IN IF made.err # NoError
          THEN /\ inflight' = Finish(p, made.err, <<>>)
               /\ UNCHANGED repo
        ELSE LET a == Alloc(repo, made.user)
                 created == RepoCreate(a.repo, a.ref)
             IN /\ inflight' = [Finish(p, created.err,
                                       IF created.err # NoError THEN <<>>
                                       ELSE <<created.repo.heap[a.ref]>>)
                                  EXCEPT ![p].calls = Append(@, "Create")]
                /\ repo' = Collect(created.repo)
  /\ UNCHANGED <<now, last, ent>>

\* UpdateUser up to the answer of GetByID
UpdateUserLoad(p, id, email, name) ==
  /\ last = NoCall
  /\ inflight[p] = Idle
  /\ LET got == RepoGetByID(repo, id)
         begun == [Idle EXCEPT !.op = "UpdateUser", !.calls = <<"GetByID">>,
                               !.args = [NoArgs EXCEPT !.id = id, !.email = email,
                                                       !.name = name]]
     IN /\ inflight' = Begin(p, IF got.err # NoError
                                  THEN [begun EXCEPT !.pc = "done", !.err = got.err]
                                ELSE [begun EXCEPT !.pc = "loaded",
                                                   !.user = <<got.repo.heap[got.ref]>>])
        /\ repo' = Collect(got.repo)
  /\ UNCHANGED <<now, last, ent>>

\* UpdateUser from the mutation of the loaded entity to the answer of Update
UpdateUserPersist(p) ==
  /\ inflight[p].op = "UpdateUser"
  /\ inflight[p].pc = "loaded"
  /\ LET email == inflight[p].args.email
         name == inflight[p].args.name
         e == IF email # EmptyString
                THEN UpdateEmail(inflight[p].user[1], email, now)
              ELSE [err |-> NoError, user |-> inflight[p].user[1]]
         n == IF name # ""
                THEN UpdateName(e.user, name, now)
              ELSE [err |-> NoError, user |-> e.user]
     IN IF e.err # NoError
          THEN /\ inflight' = Finish(p, e.err, <<>>)
               /\ UNCHANGED repo
        ELSE IF n.err # NoError
          THEN /\ inflight' = Finish(p, n.err, <<>>)
               /\ UNCHANGED repo
        ELSE LET a == Alloc(repo, n.user)
                 upd == RepoUpdate(a.repo, a.ref)
             IN /\ inflight' = [Finish(p, upd.err,
                                       IF upd.err # NoError THEN <<>>
                                       ELSE <<upd.repo.heap[a.ref]>>)
                                  EXCEPT ![p].calls = Append(@, "Update")]
                /\ repo' = Collect(upd.repo)
  /\ UNCHANGED <<now, last, ent>>

\* DeleteUser: its one repository call
DeleteUserCall(p, id) ==
  /\ last = NoCall
  /\ inflight[p] = Idle
  /\ LET del == RepoDelete(repo, id)
     IN /\ inflight' = Begin(p, [Idle EXCEPT !.op = "DeleteUser", !.pc = "done",
                                              !.calls = <<"Delete">>,
                                              !.args = [NoArgs EXCEPT !.id = id],
                                              !.err = del.err])
        /\ repo' = Collect(del.repo)
  /\ UNCHANGED <<now, last, ent>>

\* the call returns to its handler
ReturnCall(p) ==
  /\ inflight[p].pc = "done"
  /\ inflight' = [inflight EXCEPT ![p] = Idle]
  /\ UNCHANGED <<now, repo, last, ent>>

\* the requests of the race: valid emails, and updates of one field
RaceEmails == {E1, E2}
RaceNames == {"N1", "N2"}
FieldUpdates ==
  {<<email, "">> : email \in RaceEmails} \cup {<<EmptyString, name>> : name \in RaceNames}

InitRace ==
  /\ now = 2
  /\ repo = EmptyRepo(Postgres)
  /\ last = NoCall
  /\ ent = NoEntity
  /\ inflight = NoCalls

NextRace ==
  \/ Tick
  \/ \E p \in Procs, email \in RaceEmails, name \in RaceNames : CreateUserCheck(p, email, name)
  \/ \E p \in Procs : CreateUserPersist(p)
  \/ \E p \in Procs, id \in DOMAIN repo.rows, f \in FieldUpdates :
       UpdateUserLoad(p, id, f[1], f[2])
  \/ \E p \in Procs : UpdateUserPersist(p)
  \/ \E p \in Procs, id \in DOMAIN repo.rows : DeleteUserCall(p, id)
  \/ \E p \in Procs : ReturnCall(p)

SpecRace == InitRace /\ [][NextRace]_vars

\* ------------------------------------------- the repository, called directly
\* Create of the UserRepository interface called with an entity whose ID is
\* already set (the ID of a stored user, or the "user-1" of the tests)
PresetIDs(r) == {"user-1"} \cup (DOMAIN Stored(r) \ {""})

CallRepoCreate(id, email) ==
  /\ CanCreate(repo)
  /\ LET a == Alloc(repo, MkUser(id, email, "N1", now, now))
         created == RepoCreate(a.repo, a.ref)
     IN Returns("Create", "repository", [NoArgs EXCEPT !.id = id, !.email = email],
                [repo |-> created.repo, err |-> created.err,
                 ref |-> IF created.err # NoError THEN Nil ELSE a.ref,
                 calls |-> <<"Create">>], 0)

NextRepo ==
  \/ Tick
  \/ Respond
  \/ \E email \in RaceEmails, name \in RaceNames : CallCreateUser(email, name)
  \/ \E id \in IDs(repo), email \in Emails, name \in Names : CallUpdateUser(id, email, name)
  \/ last = NoCall /\ \E id \in PresetIDs(repo), email \in RaceEmails : CallRepoCreate(id, email)

SpecRepo == Init /\ [][NextRepo]_vars

\* ------------------------------------------- the service and the entity
\* Either the service is exercised (no entity of the domain tests at hand) or
\* the entity's functions are, on their own.
InitAll == Init \/ InitEntity

NextAll ==
  \/ ent = NoEntity /\ Next
  \/ repo = EmptyRepo(Postgres) /\ last = NoCall /\ NextEntity

SpecAll == InitAll /\ [][NextAll]_vars

\* ----------------------------------------------------------------- claims
Range(f) == {f[x] : x \in DOMAIN f}

\* the last call reached the service (a handler did not answer 400 first)
Invoked(op) ==
  /\ last.op = op
  /\ ~(last.via = "http" /\ HandlerRejects(last.op, last.args))

\* some user stored in st has this email
HoldsEmail(st, email) == \E id \in DOMAIN st : st[id].Email = email

\* what a lookup through the service returns now: <<err, users>>
LookupByID(id) ==
  LET res == GetUserByID(repo, id)
  IN [err |-> res.err,
      user |-> IF res.ref = Nil THEN <<>> ELSE <<res.repo.heap[res.ref]>>]

LookupByEmail(email) ==
  LET res == GetUserByEmail(repo, email)
  IN [err |-> res.err,
      user |-> IF res.ref = Nil THEN <<>> ELSE <<res.repo.heap[res.ref]>>]

SameUser(u, v) == u.ID = v.ID /\ u.Email = v.Email /\ u.Name = v.Name

\* C1: CreateUser(e, n) with an email that a stored user already has fails
\* with UserAlreadyExists, does not call the repository's Create and leaves
\* the stored users as they were.
C1_ExistingEmailRejected ==
  (Invoked("CreateUser") /\ HoldsEmail(last.pre, last.args.email)) =>
    /\ last.err = ErrUserAlreadyExists
    /\ "Create" \notin Range(last.calls)
    /\ Stored(repo) = last.pre

\* C1 restricted to the service over PostgresUserRepository.
C1_OnPostgres == repo.kind = Postgres => C1_ExistingEmailRejected

C1_PostgresWitness ==
  /\ repo.kind = Postgres
  /\ Invoked("CreateUser")
  /\ HoldsEmail(last.pre, last.args.email)
  /\ last.err = ErrUserAlreadyExists

\* C2: no two stored users have the same email, and UpdateUser(id, e, _)
\* never succeeds in giving user id an email that another stored user holds.
C2_EmailUnique ==
  /\ \A a, b \in DOMAIN Stored(repo) :
       a # b => Stored(repo)[a].Email # Stored(repo)[b].Email
  /\ (Invoked("UpdateUser") /\ last.err = NoError /\ last.args.email # EmptyString) =>
       \A o \in DOMAIN last.pre \ {last.args.id} : last.pre[o].Email # last.args.email

\* C2 restricted to the service over PostgresUserRepository.
C2_OnPostgres == repo.kind = Postgres => C2_EmailUnique

C2_PostgresWitness ==
  /\ repo.kind = Postgres
  /\ Invoked("UpdateUser")
  /\ last.args.id \in DOMAIN last.pre
  /\ \E o \in DOMAIN last.pre \ {last.args.id} : last.pre[o].Email = last.args.email
  /\ last.err = Wrap("failed to update user", PqUniqueViolation)

\* C3: CreateUser(e, n) with a valid email that no stored user has and a
\* non-empty name succeeds, returns a user with that email and name and the
\* id the repository's Create assigned, and afterwards GetUserByID of that id
\* and GetUserByEmail(e) both return that user.
C3_CreateThenFind ==
  (/\ Invoked("CreateUser")
   /\ IsValidEmail(last.args.email)
   /\ ~HoldsEmail(last.pre, last.args.email)
   /\ last.args.name # "") =>
    /\ last.err = NoError
    /\ last.ret # <<>>
    /\ last.ret[1].Email = last.args.email
    /\ last.ret[1].Name = last.args.name
    /\ last.ret[1].ID \notin DOMAIN last.pre
    /\ last.ret[1].ID \in DOMAIN Stored(repo)
    /\ LookupByID(last.ret[1].ID).err = NoError
    /\ SameUser(LookupByID(last.ret[1].ID).user[1], last.ret[1])
    /\ LookupByEmail(last.args.email).err = NoError
    /\ SameUser(LookupByEmail(last.args.email).user[1], last.ret[1])

\* C3 restricted to the service over PostgresUserRepository.
C3_OnPostgres == repo.kind = Postgres => C3_CreateThenFind

C3_PostgresWitness ==
  /\ repo.kind = Postgres
  /\ Invoked("CreateUser")
  /\ last.err = NoError
  /\ last.pre # <<>>
  /\ last.ret[1].ID \in DOMAIN Stored(repo)

\* C4: when no stored user has email e, CreateUser(e, n) with an invalid e
\* fails with exactly InvalidUserEmail and with a valid e and an empty n with
\* exactly InvalidUserName, and no user is persisted.
C4_ValidationErrors ==
  (Invoked("CreateUser") /\ ~HoldsEmail(last.pre, last.args.email)) =>
    /\ ~IsValidEmail(last.args.email) =>
         last.err = ErrInvalidUserEmail /\ Stored(repo) = last.pre
    /\ (IsValidEmail(last.args.email) /\ last.args.name = "") =>
         last.err = ErrInvalidUserName /\ Stored(repo) = last.pre

\* C4 restricted to the service over PostgresUserRepository.
C4_OnPostgres == repo.kind = Postgres => C4_ValidationErrors

C4_PostgresWitness ==
  /\ repo.kind = Postgres
  /\ Invoked("CreateUser")
  /\ last.pre # <<>>
  /\ last.err = ErrInvalidUserName

\* C5: UpdateUser(id, "", n) on a stored user with a non-empty n succeeds,
\* sets the stored and the returned Name to n and leaves the stored and the
\* returned Email as they were; an empty name never changes the Name.
C5_NameOnlyUpdate ==
  /\ (/\ Invoked("UpdateUser")
      /\ last.args.id \in DOMAIN last.pre
      /\ last.args.email = EmptyString
      /\ last.args.name # "") =>
       /\ last.err = NoError
       /\ last.ret # <<>>
       /\ last.ret[1].Name = last.args.name
       /\ last.ret[1].Email = last.pre[last.args.id].Email
       /\ last.args.id \in DOMAIN Stored(repo)
       /\ Stored(repo)[last.args.id].Name = last.args.name
       /\ Stored(repo)[last.args.id].Email = last.pre[last.args.id].Email
  /\ (/\ Invoked("UpdateUser")
      /\ last.err = NoError
      /\ last.args.name = "") =>
       /\ last.ret[1].Name = last.pre[last.args.id].Name
       /\ Stored(repo)[last.args.id].Name = last.pre[last.args.id].Name
       /\ Stored(repo)[last.args.id].Name # ""

C5_Witness ==
  /\ Invoked("UpdateUser")
  /\ last.args.id \in DOMAIN last.pre
  /\ last.args.email = EmptyString
  /\ last.args.name # ""
  /\ last.args.name # last.pre[last.args.id].Name
  /\ last.err = NoError

\* C6: whenever UpdateUser returns an error the stored users are as they
\* were before the call (no field of the user under id is changed); an
\* invalid non-empty email on a stored user gives exactly InvalidUserEmail and
\* applies nothing of the name sent with it, and an id the repository does
\* not find gives an error.
C6_FailedUpdateChangesNothing ==
  /\ (Invoked("UpdateUser") /\ last.err # NoError) =>
       /\ Stored(repo) = last.pre
       /\ last.ret = <<>>
  /\ (/\ Invoked("UpdateUser")
      /\ last.args.id \in DOMAIN last.pre
      /\ last.args.email # EmptyString
      /\ ~IsValidEmail(last.args.email)) =>
       /\ last.err = ErrInvalidUserEmail
       /\ Stored(repo)[last.args.id] = last.pre[last.args.id]
  /\ (Invoked("UpdateUser") /\ last.args.id \notin DOMAIN last.pre) =>
       last.err # NoError

C6_Witness ==
  /\ Invoked("UpdateUser")
  /\ last.args.id \in DOMAIN last.pre
  /\ ~IsValidEmail(last.args.email)
  /\ last.args.email # EmptyString
  /\ last.args.name # ""
  /\ last.args.name # last.pre[last.args.id].Name
  /\ last.err = ErrInvalidUserEmail

\* C7: GetUserByID("") fails with InvalidUserID and calls no method of the
\* repository, whatever the repository stores.
C7_EmptyIDRejected ==
  (Invoked("GetUserByID") /\ last.args.id = "") =>
    /\ last.err = ErrInvalidUserID
    /\ last.calls = <<>>
    /\ last.ret = <<>>
    /\ Stored(repo) = last.pre

C7_Witness ==
  /\ Invoked("GetUserByID")
  /\ last.args.id = ""
  /\ "" \in DOMAIN last.pre
  /\ last.err = ErrInvalidUserID

\* C8: GetByID and GetByEmail on a missing key, and Update and Delete of a
\* missing row, give exactly UserNotFound, which the handler answers with 404;
\* no sql.ErrNoRows reaches the service or the handler.
C8_MissingKeyIsNotFound ==
  /\ (/\ Invoked("GetUserByID") \/ Invoked("UpdateUser") \/ Invoked("DeleteUser")
      /\ last.args.id # ""
      /\ last.args.id \notin DOMAIN last.pre) =>
       /\ last.err = ErrUserNotFound
       /\ last.via = "http" => last.status = StatusNotFound
  /\ (Invoked("GetUserByEmail") /\ ~HoldsEmail(last.pre, last.args.email)
        /\ last.args.email \notin DOMAIN repo.emails) =>
       last.err = ErrUserNotFound
  /\ ~containsError(last.err, SqlErrNoRows)

\* C8 for the keys the users table can hold: ids that are uuids.
C8_OnUUIDs ==
  /\ (/\ Invoked("GetUserByID") \/ Invoked("UpdateUser") \/ Invoked("DeleteUser")
      /\ last.args.id # ""
      /\ repo.kind = Postgres => IsUUID(last.args.id)
      /\ last.args.id \notin DOMAIN last.pre) =>
       /\ last.err = ErrUserNotFound
       /\ last.via = "http" => last.status = StatusNotFound
  /\ (Invoked("GetUserByEmail") /\ ~HoldsEmail(last.pre, last.args.email)
        /\ last.args.email \notin DOMAIN repo.emails) =>
       last.err = ErrUserNotFound
  /\ ~containsError(last.err, SqlErrNoRows)

\* C9: DeleteUser(id) of a stored user succeeds and removes exactly that
\* user, after which GetUserByID(id) and a second DeleteUser(id) fail with
\* UserNotFound; DeleteUser of an id that is not stored fails with
\* UserNotFound and leaves the stored users as they were.  (Stated for the
\* ids a handler passes on, which are not empty.)
C9_Delete ==
  /\ (Invoked("DeleteUser") /\ last.args.id # "" /\ last.args.id \in DOMAIN last.pre) =>
       /\ last.err = NoError
       /\ Stored(repo) = Del(last.pre, last.args.id)
       /\ LookupByID(last.args.id).err = ErrUserNotFound
       /\ DeleteUser(repo, last.args.id).err = ErrUserNotFound
  /\ (Invoked("DeleteUser") /\ last.args.id # "" /\ last.args.id \notin DOMAIN last.pre) =>
       /\ last.err = ErrUserNotFound
       /\ Stored(repo) = last.pre

\* C9 for ids that are uuids when the users table is asked.
C9_OnUUIDs ==
  (Invoked("DeleteUser") /\ (repo.kind = Postgres => IsUUID(last.args.id))) => C9_Delete

C11_InvalidUpdateKeepsEntity ==
  /\ (ent.op = "UpdateEmail" /\ ~IsValidEmail(ent.email)) =>
       /\ ent.err = ErrInvalidUserEmail
       /\ ent.user = ent.pre
  /\ (ent.op = "UpdateName" /\ ent.name = "") =>
       /\ ent.err = ErrInvalidUserName
       /\ ent.user = ent.pre
  /\ (ent.op \in {"UpdateEmail", "UpdateName"} /\ ent.err # NoError) =>
       ent.user = ent.pre

C11_Witness ==
  /\ ent.op = "UpdateEmail"
  /\ ent.email = EInvalid
  /\ ent.err = ErrInvalidUserEmail
  /\ ent.pre[1].UpdatedAt < now

\* C12: every successful UpdateEmail, UpdateName and UpdateUser that changes
\* a field leaves UpdatedAt strictly greater than it was before the call,
\* also when the clock reads what it read at the previous mutation or at
\* construction.
C12_UpdatedAtStrictlyGreater ==
  /\ (/\ ent.op \in {"UpdateEmail", "UpdateName"}
      /\ ent.err = NoError
      /\ ent.user[1].Email # ent.pre[1].Email \/ ent.user[1].Name # ent.pre[1].Name) =>
       ent.user[1].UpdatedAt > ent.pre[1].UpdatedAt
  /\ (/\ Invoked("UpdateUser")
      /\ last.err = NoError
      /\ \/ last.ret[1].Email # last.pre[last.args.id].Email
         \/ last.ret[1].Name # last.pre[last.args.id].Name) =>
       /\ last.ret[1].UpdatedAt > last.pre[last.args.id].UpdatedAt
       /\ Stored(repo)[last.args.id].UpdatedAt > last.pre[last.args.id].UpdatedAt

\* C12 for updates made at a later clock reading than the entity's UpdatedAt
\* (for a stored user: later than the stored UpdatedAt by a whole microsecond).
C12_WhenClockAdvanced ==
  /\ (/\ ent.op \in {"UpdateEmail", "UpdateName"}
      /\ ent.err = NoError
      /\ ent.at > ent.pre[1].UpdatedAt) =>
       ent.user[1].UpdatedAt > ent.pre[1].UpdatedAt
  /\ (/\ Invoked("UpdateUser")
      /\ last.err = NoError
      /\ last.args.email # EmptyString \/ last.args.name # ""
      /\ now >= last.pre[last.args.id].UpdatedAt + TicksPerMicro) =>
       /\ last.ret[1].UpdatedAt > last.pre[last.args.id].UpdatedAt
       /\ Stored(repo)[last.args.id].UpdatedAt > last.pre[last.args.id].UpdatedAt

Kind(err) == <<err[Len(err)]>>

\* C14: getStatusCodeFromError gives every error, bare or wrapped, the one
\* status of its kind: UserNotFound 404, UserAlreadyExists 409, InvalidUserID,
\* InvalidUserEmail, InvalidUserName, InvalidInput and ValidationFailed 400,
\* Unauthorized 401, Forbidden 403, and every other error 500.
C14_StatusOfKind ==
  last.op = "getStatusCodeFromError" =>
    LET kind == Kind(last.err)
    IN /\ kind = ErrUserNotFound => last.status = 404
       /\ kind = ErrUserAlreadyExists => last.status = 409
       /\ kind \in {ErrInvalidUserID, ErrInvalidUserEmail, ErrInvalidUserName,
                    ErrInvalidInput, ErrValidationFailed} => last.status = 400
       /\ kind = ErrUnauthorized => last.status = 401
       /\ kind = ErrForbidden => last.status = 403
       /\ kind \in StorageErrors \cup {ErrInternalError, ErrInvalidUserRole,
                    ErrInvalidUserEmailVerified, ErrInvalidUserActive,
                    ErrInvalidOTP, ErrInvalidOTPExpiresAt} => last.status = 500
       /\ last.status \in {400, 401, 403, 404, 409, 500}

C14_Witness ==
  /\ last.op = "getStatusCodeFromError"
  /\ last.err = Wrap("user not found", Wrap("failed to get user by ID", ErrUserAlreadyExists))
  /\ last.status = 409

\* C15: ListUsers(limit, offset) with limit >= 1 and offset >= 0 returns,
\* without error, at most limit users, each of them stored and none twice,
\* and the empty sequence when nothing is stored or offset is at or past the
\* number of stored users.
C15_ListUsers ==
  (Invoked("ListUsers") /\ last.args.limit >= 1 /\ last.args.offset >= 0) =>
    /\ last.err = NoError
    /\ Len(last.ret) <= last.args.limit
    /\ \A i \in 1..Len(last.ret) : last.ret[i] \in Range(last.pre)
    /\ \A i, j \in 1..Len(last.ret) : i # j => last.ret[i].ID # last.ret[j].ID
    /\ last.args.offset >= Cardinality(DOMAIN last.pre) => last.ret = <<>>

C15_Witness ==
  /\ Invoked("ListUsers")
  /\ repo.kind = Postgres
  /\ Cardinality(DOMAIN last.pre) = 2
  /\ last.args.limit = 1
  /\ last.args.offset = 1
  /\ Len(last.ret) = 1

C15_EmptyWitness ==
  /\ Invoked("ListUsers")
  /\ last.pre = <<>>
  /\ last.args.limit = 10
  /\ last.args.offset = 0
  /\ last.ret = <<>>
  /\ last.err = NoError

\* the decimal numeral of a natural number
RECURSIVE Itoa(_)
Itoa(n) ==
  IF n < 10 THEN <<DigitChars[n + 1]>>
  ELSE Append(Itoa(n \div 10), DigitChars[(n % 10) + 1])

\* the numbers whose numerals the queries of the model can spell
QueryNumbers == {0, 1, 10, 11, 100, 101, 110, 111}

\* C16: whatever the limit and offset queries are, the ListUsers handler calls
\* the service with limit >= 1 and offset >= 0 and never rejects the request;
\* limit is the query's number when that is a positive integer and 10
\* otherwise, offset the query's number when that is a non-negative integer
\* and 0 otherwise.
C16_ListQueryParsing ==
  (last.op = "ListUsers" /\ last.via = "http") =>
    LET limitStr == last.args.limitStr
        offsetStr == last.args.offsetStr
        Unsigned(str) == IF str # <<>> /\ str[1] = "+" THEN Tail(str) ELSE str
        Junk(str) == \E i \in 1..Len(str) : str[i] = "x" \/ (i > 1 /\ str[i] \in {"+", "-"})
    IN /\ last.args.limit >= 1
       /\ last.args.offset >= 0
       /\ last.calls = <<"List">>
       /\ last.err = NoError
       /\ last.status = StatusOK
       /\ \A n \in QueryNumbers :
            /\ (n > 0 /\ Unsigned(limitStr) = Itoa(n)) => last.args.limit = n
            /\ Unsigned(offsetStr) = Itoa(n) => last.args.offset = n
            /\ limitStr = <<"-">> \o Itoa(n) => last.args.limit = 10
            /\ offsetStr = <<"-">> \o Itoa(n) => last.args.offset = 0
       /\ (limitStr \in {EmptyString, <<"0">>, <<"+">>, <<"-">>} \/ Junk(limitStr)) =>
            last.args.limit = 10
       /\ (offsetStr \in {EmptyString, <<"+">>, <<"-">>} \/ Junk(offsetStr)) =>
            last.args.offset = 0
       /\ last.args.limit # 10 =>
            \E n \in QueryNumbers : DecimalValue(Unsigned(limitStr)) = n /\ last.args.limit = n

C16_Witness ==
  /\ last.op = "ListUsers"
  /\ last.via = "http"
  /\ last.args.limitStr = <<"-", "1">>
  /\ last.args.offsetStr = <<"1">>
  /\ last.args.limit = 10
  /\ last.args.offset = 1
  /\ Len(last.ret) = 1

\* the calls of p and q overlapped each other and no other call: each was in
\* flight when the other began or began while the other was in flight, and
\* no third call began or was in flight meanwhile
Overlap(p, q) == p # q /\ inflight[p].overlaps = 1 /\ inflight[q].overlaps = 1

\* two CreateUser calls for one email that overlapped and have both answered
CreateRace(p, q) ==
  /\ p # q
  /\ Overlap(p, q)
  /\ \A x \in {p, q} : inflight[x].op = "CreateUser" /\ inflight[x].pc = "done"
  /\ inflight[p].args.email = inflight[q].args.email

\* C17: when two CreateUser calls with the same valid email and non-empty
\* names interleave their GetByEmail and Create steps, at most one succeeds,
\* at most one user with that email is stored, and a call that fails fails
\* with ErrUserAlreadyExists (the pre-check) or with the unique-constraint
\* failure of the INSERT, wrapped and not errors.Is ErrUserAlreadyExists
\* (the handler answers it with 500, not 409).
C17_CreateRace ==
  \A p, q \in Procs :
    CreateRace(p, q) =>
      /\ ~(inflight[p].err = NoError /\ inflight[q].err = NoError)
      /\ Cardinality({id \in DOMAIN Stored(repo) :
                        Stored(repo)[id].Email = inflight[p].args.email}) <= 1
      /\ \A x \in {p, q} :
           inflight[x].err # NoError =>
             \/ inflight[x].err = ErrUserAlreadyExists
             \/ /\ inflight[x].err = Wrap("failed to create user", PqUniqueViolation)
                /\ ~containsError(inflight[x].err, ErrUserAlreadyExists)
                /\ getStatusCodeFromError(inflight[x].err) = StatusInternalServerError

\* both calls passed the pre-check; one stored the user, the other was
\* stopped by the unique constraint
C17_Witness ==
  \E p, q \in Procs :
    /\ CreateRace(p, q)
    /\ inflight[p].err = NoError
    /\ inflight[q].err = Wrap("failed to create user", PqUniqueViolation)
    /\ HoldsEmail(Stored(repo), inflight[p].args.email)

\* the second call began after the first had stored the user and before it
\* returned: the pre-check stops it
C17_PreCheckWitness ==
  \E p, q \in Procs :
    /\ CreateRace(p, q)
    /\ inflight[p].err = NoError
    /\ inflight[q].err = ErrUserAlreadyExists

\* the operations of UserService
ServiceOps ==
  {"CreateUser", "GetUserByID", "GetUserByEmail", "UpdateUser", "DeleteUser", "ListUsers"}

CallsOf(op) ==
  IF op = "CreateUser" THEN {<<"GetByEmail">>, <<"GetByEmail", "Create">>}
  ELSE IF op = "GetUserByID" THEN {<<>>, <<"GetByID">>}
  ELSE IF op = "GetUserByEmail" THEN {<<"GetByEmail">>}
  ELSE IF op = "UpdateUser" THEN {<<"GetByID">>, <<"GetByID", "Update">>}
  ELSE IF op = "DeleteUser" THEN {<<"Delete">>}
  ELSE {<<"List">>}

KeepsIDAndCreatedAt ==
  \A id \in DOMAIN last.pre :
    /\ id \in DOMAIN Stored(repo)
    /\ Stored(repo)[id].ID = last.pre[id].ID
    /\ Stored(repo)[id].CreatedAt = last.pre[id].CreatedAt

\* the last call was a successful Create of the repository and the user it
\* stored has an ID of the storage's making, not the one the entity came with
StoredUnderGeneratedID ==
  LET created == last.ret[1]
  IN /\ created.ID # last.args.id
     /\ created.ID \notin DOMAIN last.pre
     /\ created.ID \in DOMAIN Stored(repo)
     /\ Stored(repo)[created.ID].ID = created.ID
     /\ Stored(repo)[created.ID].Email = last.args.email
     /\ \A id \in DOMAIN last.pre : Stored(repo)[id] = last.pre[id]

\* C19: the ID and the CreatedAt of a stored user never change after
\* creation: every UpdateUser, successful or failed, leaves them as they were
\* stored, and an ID pre-set on the entity passed to the repository's Create
\* is ignored in favour of the storage-generated one.
C19_IDAndCreatedAtFixed ==
  /\ Invoked("UpdateUser") => KeepsIDAndCreatedAt
  /\ (last.op = "Create" /\ last.err = NoError) => StoredUnderGeneratedID

\* the same over PostgresUserRepository alone
C19_OnPostgres ==
  repo.kind = Postgres => C19_IDAndCreatedAtFixed

\* a Create over Postgres with the ID of a stored user: a new row, the old
\* one as it was
C19_PostgresWitness ==
  /\ repo.kind = Postgres
  /\ last.op = "Create"
  /\ last.err = NoError
  /\ last.args.id \in DOMAIN last.pre
  /\ Cardinality(DOMAIN Stored(repo)) = 2

\* an UpdateUser that changed the stored user
C19_UpdateWitness ==
  /\ repo.kind = Postgres
  /\ Invoked("UpdateUser")
  /\ last.err = NoError
  /\ \E id \in DOMAIN last.pre : Stored(repo)[id].Email # last.pre[id].Email

\* two UpdateUser calls on one stored user that overlapped and both returned
\* success: p gave only a new email, q only a new name
UpdateRace(p, q) ==
  /\ Overlap(p, q)
  /\ \A x \in {p, q} :
       /\ inflight[x].op = "UpdateUser"
       /\ inflight[x].pc = "done"
       /\ inflight[x].err = NoError
  /\ inflight[p].args.id = inflight[q].args.id
  /\ inflight[p].args.email # EmptyString /\ inflight[p].args.name = ""
  /\ inflight[q].args.email = EmptyString /\ inflight[q].args.name # ""

\* C20: when two UpdateUser calls on the same stored user run concurrently,
\* one with only a new valid email and the other with only a new name, and
\* both return success, the stored user has both the new email and the new
\* name.
C20_BothUpdatesKept ==
  \A p, q \in Procs :
    UpdateRace(p, q) =>
      LET stored == Stored(repo)[inflight[p].args.id]
      IN /\ stored.Email = inflight[p].args.email
         /\ stored.Name = inflight[q].args.name

\* the two calls overlapped and the second loaded the user after the first
\* had written it: both values are stored
C20_KeptWitness ==
  \E p, q \in Procs :
    /\ UpdateRace(p, q)
    /\ Stored(repo)[inflight[p].args.id].Email = inflight[p].args.email
    /\ Stored(repo)[inflight[p].args.id].Name = inflight[q].args.name
    /\ inflight[p].user[1].Email # inflight[q].user[1].Email

\* p is an UpdateUser that has loaded its user and not yet called Update,
\* and the user's row has been deleted meanwhile
DeletedUnderUpdate(p) ==
  /\ inflight[p].op = "UpdateUser"
  /\ inflight[p].pc = "loaded"
  /\ inflight[p].args.id \notin DOMAIN Stored(repo)

\* C21: a deleted user is never brought back by an in-flight update: when
\* DeleteUser(id) succeeds between the load and the persist step of an
\* UpdateUser(id, ...), the UpdateUser fails with ErrUserNotFound and the
\* store holds no user with that id afterwards.
C21_DeletedStaysDeleted ==
  [][\A p \in Procs :
       (DeletedUnderUpdate(p) /\ inflight'[p].pc = "done") =>
         /\ inflight'[p].err = ErrUserNotFound
         /\ inflight'[p].user = <<>>
         /\ inflight'[p].args.id \notin DOMAIN Stored(repo')]_vars

\* the UpdateUser loaded the user, the DeleteUser of the other process
\* succeeded, and the Update then found no row
C21_Witness ==
  \E p, q \in Procs :
    /\ Overlap(p, q)
    /\ inflight[p].op = "UpdateUser" /\ inflight[p].pc = "done"
    /\ inflight[p].calls = <<"GetByID", "Update">>
    /\ inflight[p].err = ErrUserNotFound
    /\ inflight[q].op = "DeleteUser" /\ inflight[q].pc = "done"
    /\ inflight[q].err = NoError
    /\ inflight[q].args.id = inflight[p].args.id
    /\ inflight[p].args.id \notin DOMAIN Stored(repo)

\* GetUserByEmail(e) returns a user exactly when a stored user has Email e,
\* and fails with ErrUserNotFound otherwise
EmailIndexAgrees ==
  \A e \in {E1, E2} :
    IF HoldsEmail(Stored(repo), e)
      THEN /\ LookupByEmail(e).err = NoError
           /\ LookupByEmail(e).user[1].Email = e
    ELSE LookupByEmail(e).err = ErrUserNotFound

\* every stored user is found by GetUserByID under its ID
IDIndexAgrees ==
  \A id \in DOMAIN Stored(repo) :
    /\ LookupByID(Stored(repo)[id].ID).err = NoError
    /\ LookupByID(Stored(repo)[id].ID).user[1] = Stored(repo)[id]

\* C22: with MockUserRepository behind the service, after any sequence of
\* CreateUser, UpdateUser and DeleteUser calls the two indexes agree: every
\* created and not deleted user is found by GetUserByID under its ID, and
\* GetUserByEmail(e) returns a user exactly when a stored user has Email e.
C22_IndexesAgree ==
  repo.kind = Mock => (IDIndexAgrees /\ EmailIndexAgrees)

\* the half of C22 about the emails map alone
C22_EmailIndexAgrees ==
  repo.kind = Mock => EmailIndexAgrees

====
